---- MODULE Spec2Model ----
(***************************************************************************)
(* Model of the patternscanner crate: the pattern compiler                 *)
(* (create_bytes_from_string, src/src/lib.rs), the sequential scans        *)
(* (src/src/st.rs), the rayon-based parallel scans (src/src/mt.rs) and the *)
(* PatternScanner methods (src/src/lib.rs).                                *)
(*                                                                         *)
(* A pattern text is a sequence of one-character strings.  An Option<u8>   *)
(* is <<>> (None) or <<b>> (Some(b)).  Offsets are zero-based as in the    *)
(* code; TLA+ sequences are one-based, so byte i of a slice is bytes[i+1]. *)
(***************************************************************************)
EXTENDS Integers, Sequences, FiniteSets, TLC

VARIABLES
    text,           \* the pattern string handed to the call
    bytes,          \* the buffer handed to the call
    op,             \* the function called
    pc,             \* "idle", "running" (parallel iterator driven), "done"
    pattern_bytes,  \* the compiled pattern of a running parallel scan
    chunks,         \* the leaves [lo, hi] the window range is split into
    slots,          \* the finished leaves' outputs: records [lo, out]
    order,          \* the finished leaves' lo, in order of completion
    next,           \* position_any: per leaf, the next window to test
    wstate,         \* position_any: per leaf, "idle", "check", "test", "stop"
    found,          \* position_any: the shared found flag
    examined,       \* the buffer indices inside windows handed to the predicate
    results,        \* scan_with_bytes: what scan_all_with_bytes returned
    result          \* what the call returned

vars == <<text, bytes, op, pc, pattern_bytes, chunks, slots, order, next,
          wstate, found, examined, results, result>>

-----------------------------------------------------------------------------
(* Bounds of the model *)

MaxTextLen == 5
MaxBufLen == 4
MaxPatLen == 2
MaxChunks == 3

-----------------------------------------------------------------------------
(* Option and Result values *)

None == <<>>

Some(b) == <<b>>

Ok(v) == [tag |-> "Ok", val |-> v]

ErrByteLength(x) == [tag |-> "Err", err |-> "ByteLength", token |-> x]

ErrInvalidByte(e) == [tag |-> "Err", err |-> "InvalidByte", cause |-> e]

ErrNonUniquePattern == [tag |-> "Err", err |-> "NonUniquePattern"]

Panic == [tag |-> "Panic"]

NoResult == [tag |-> "NoResult"]

-----------------------------------------------------------------------------
(* Characters *)

DecDigits == <<"0", "1", "2", "3", "4", "5", "6", "7", "8", "9">>

LowerDigits == <<"a", "b", "c", "d", "e", "f">>

UpperDigits == <<"A", "B", "C", "D", "E", "F">>

(* char::is_whitespace, on the characters of the model's alphabet *)
IsWhitespace(c) == c \in {" ", "\t", "\n", "\r"}

(* a to_digit that knows only the upper-case letters *)
ToDigitUpperOnly(c) ==
    IF \E i \in 1..10 : DecDigits[i] = c
    THEN (CHOOSE i \in 1..10 : DecDigits[i] = c) - 1
    ELSE IF \E i \in 1..6 : UpperDigits[i] = c
    THEN (CHOOSE i \in 1..6 : UpperDigits[i] = c) + 9
    ELSE -1

(* char::to_digit(16): the digit's value, or -1 when c is no hex digit *)
ToDigit(c) ==
    IF \E i \in 1..10 : DecDigits[i] = c
    THEN (CHOOSE i \in 1..10 : DecDigits[i] = c) - 1
    ELSE IF \E i \in 1..6 : LowerDigits[i] = c
    THEN (CHOOSE i \in 1..6 : LowerDigits[i] = c) + 9
    ELSE IF \E i \in 1..6 : UpperDigits[i] = c
    THEN (CHOOSE i \in 1..6 : UpperDigits[i] = c) + 9
    ELSE -1


-----------------------------------------------------------------------------
(* str::split_whitespace: the maximal runs of non-whitespace characters,   *)
(* in order; empty pieces are dropped.  cur is the token being read.       *)

RECURSIVE SplitFrom(_, _, _)
SplitFrom(s, i, cur) ==
    IF i > Len(s)
    THEN IF cur = <<>> THEN <<>> ELSE <<cur>>
    ELSE IF IsWhitespace(s[i])
         THEN IF cur = <<>>
              THEN SplitFrom(s, i + 1, <<>>)
              ELSE <<cur>> \o SplitFrom(s, i + 1, <<>>)
         ELSE SplitFrom(s, i + 1, Append(cur, s[i]))

split_whitespace(s) == SplitFrom(s, 1, <<>>)

(* u8::from_str_radix(x, 16): an optional leading "+" (never "-", u8 is    *)
(* unsigned), then hex digits accumulated with an overflow check.          *)
RECURSIVE ParseDigits(_, _, _)
ParseDigits(digits, i, acc) ==
    IF i > Len(digits)
    THEN Ok(acc)
    ELSE IF ToDigit(digits[i]) < 0
         THEN ErrInvalidByte("InvalidDigit")
         ELSE IF acc * 16 + ToDigit(digits[i]) > 255
              THEN ErrInvalidByte("PosOverflow")
              ELSE ParseDigits(digits, i + 1, acc * 16 + ToDigit(digits[i]))

from_str_radix(x) ==
    IF x = <<>>
    THEN ErrInvalidByte("Empty")
    ELSE IF x = <<"+">> \/ x = <<"-">>
    THEN ErrInvalidByte("InvalidDigit")
    ELSE IF x[1] = "+"
    THEN ParseDigits(Tail(x), 1, 0)
    ELSE ParseDigits(x, 1, 0)

(* the closure of create_bytes_from_string: one token to one mask entry *)
MapToken(x) ==
    IF x = <<"?">> \/ x = <<"?", "?">>
    THEN Ok(None)
    ELSE IF Len(x) # 2
         THEN ErrByteLength(x)
         ELSE LET r == from_str_radix(x)
              IN  IF r.tag = "Ok" THEN Ok(Some(r.val)) ELSE r

(* collect::<Result<Vec<_>, _>>(): the entries in order, or the first Err *)
RECURSIVE CollectFrom(_, _, _)
CollectFrom(tokens, i, acc) ==
    IF i > Len(tokens)
    THEN Ok(acc)
    ELSE LET r == MapToken(tokens[i])
         IN  IF r.tag = "Ok"
             THEN CollectFrom(tokens, i + 1, Append(acc, r.val))
             ELSE r

create_bytes_from_string(pattern) ==
    CollectFrom(split_whitespace(pattern), 1, <<>>)

-----------------------------------------------------------------------------
(* Inputs of the compiler: every text over the alphabet up to MaxTextLen *)

Alphabet == {" ", "\t", "?", "1", "A", "a", "G", "+"}

Texts == UNION {[1..n -> Alphabet] : n \in 0..MaxTextLen}

InitCompile ==
    /\ text \in Texts
    /\ bytes = <<>>
    /\ op = "none"
    /\ pc = "idle"
    /\ pattern_bytes = <<>>
    /\ chunks = {}
    /\ slots = {}
    /\ order = <<>>
    /\ next = <<>>
    /\ wstate = <<>>
    /\ found = FALSE
    /\ examined = {}
    /\ results = NoResult
    /\ result = NoResult

(* a call of create_bytes_from_string(text) *)
Compile ==
    /\ pc = "idle"
    /\ op' = "compile"
    /\ result' = create_bytes_from_string(text)
    /\ pc' = "done"
    /\ UNCHANGED <<text, bytes, pattern_bytes, chunks, slots, order, next,
                   wstate, found, examined, results>>

NextCompile == Compile

SpecCompile == InitCompile /\ [][NextCompile]_vars

-----------------------------------------------------------------------------
(* The sliding window and the match predicate *)

(* slice::windows(size): panics when size is 0, otherwise yields the       *)
(* windows that start at offsets 0 .. len - size (none when size > len).   *)
(* The value is the number of windows.                                     *)
windows(b, size) ==
    IF size = 0
    THEN Panic
    ELSE IF Len(b) >= size THEN Ok(Len(b) - size + 1) ELSE Ok(0)

(* ParallelSlice::par_windows(size) once driven: the length assertion      *)
(* window_size >= 1, then len.saturating_sub(size - 1) windows.            *)
par_windows_fits_only(b, size) ==
    IF size = 0 \/ size > Len(b) THEN Panic ELSE Ok(Len(b) - size + 1)

par_windows_drops_last(b, size) ==
    IF size = 0
    THEN Panic
    ELSE IF Len(b) > size THEN Ok(Len(b) - size) ELSE Ok(0)

par_windows(b, size) ==
    IF size = 0
    THEN Panic
    ELSE IF Len(b) >= size - 1 THEN Ok(Len(b) - (size - 1)) ELSE Ok(0)

\* The predicate of every scan, for the window that starts at offset i:
\* the window's bytes zipped with pattern_bytes, all of the pairs having
\* pattern_byte.is_none() or Some(byte) == pattern_byte.
WindowMatchesExactOnly(b, i, pb) ==
    \A k \in 1..Len(pb) : Some(b[i + k]) = pb[k]

WindowMatchesFirstByte(b, i, pb) ==
    pb[1] = None \/ Some(b[i + 1]) = pb[1]

WindowMatches(b, i, pb) ==
    \A k \in 1..Len(pb) : pb[k] = None \/ Some(b[i + k]) = pb[k]

(* the buffer indices inside the windows that start at lo .. hi *)
WindowIndices(lo, hi, size) == {i + k : i \in lo..hi, k \in 0..(size - 1)}

-----------------------------------------------------------------------------
(* src/src/st.rs *)

(* Iterator::position over the windows: the first offset that matches *)
RECURSIVE PositionLast(_, _, _, _)
PositionLast(b, pb, i, n) ==
    IF i >= n
    THEN None
    ELSE IF PositionLast(b, pb, i + 1, n) # None
         THEN PositionLast(b, pb, i + 1, n)
         ELSE IF WindowMatches(b, i, pb) THEN Some(i) ELSE None

RECURSIVE PositionFrom(_, _, _, _)
PositionFrom(b, pb, i, n) ==
    IF i >= n
    THEN None
    ELSE IF WindowMatches(b, i, pb)
         THEN Some(i)
         ELSE PositionFrom(b, pb, i + 1, n)

position(b, pb, i, n) == PositionFrom(b, pb, i, n)

(* enumerate().filter_map(..).collect() over the windows lo .. hi *)
RECURSIVE FilterMapFrom(_, _, _, _)
FilterMapFrom(b, pb, i, hi) ==
    IF i > hi
    THEN <<>>
    ELSE IF WindowMatches(b, i, pb)
         THEN <<i>> \o FilterMapFrom(b, pb, i + 1, hi)
         ELSE FilterMapFrom(b, pb, i + 1, hi)

st_pattern_scan(b, pattern) ==
    LET c == create_bytes_from_string(pattern)
    IN  IF c.tag # "Ok"
        THEN c
        ELSE LET w == windows(b, Len(c.val))
             IN  IF w.tag # "Ok" THEN w ELSE Ok(position(b, c.val, 0, w.val))

st_pattern_scan_all(b, pattern) ==
    LET c == create_bytes_from_string(pattern)
    IN  IF c.tag # "Ok"
        THEN c
        ELSE LET w == windows(b, Len(c.val))
             IN  IF w.tag # "Ok"
                 THEN w
                 ELSE Ok(FilterMapFrom(b, c.val, 0, w.val - 1))

(* the windows st::pattern_scan hands to the predicate: up to the match *)
StScanWindows(b, pb, n) ==
    LET p == position(b, pb, 0, n)
    IN  IF p = None THEN n ELSE p[1] + 1

-----------------------------------------------------------------------------
(* rayon: the window range is split into leaves, each leaf is folded by    *)
(* one worker, and the leaves' outputs are reduced in position order.      *)

(* Vec::sort on offsets: insertion into an ascending list *)
RECURSIVE Insert(_, _)
Insert(x, s) ==
    IF s = <<>>
    THEN <<x>>
    ELSE IF x <= Head(s) THEN <<x>> \o s ELSE <<Head(s)>> \o Insert(x, Tail(s))

RECURSIVE InsertionSort(_)
InsertionSort(s) ==
    IF s = <<>> THEN <<>> ELSE Insert(Head(s), InsertionSort(Tail(s)))

sort(s) == InsertionSort(s)

SlotOf(ss, lo) == CHOOSE r \in ss : r.lo = lo

(* the outputs of the finished leaves in order of completion *)
RECURSIVE CollectInCompletionOrder(_, _)
CollectInCompletionOrder(ss, ord) ==
    IF ord = <<>>
    THEN <<>>
    ELSE SlotOf(ss, Head(ord)).out \o CollectInCompletionOrder(ss, Tail(ord))

(* the reducer appends right to left: the outputs in position order *)
RECURSIVE CollectFromLo(_, _, _)
CollectFromLo(ss, i, n) ==
    IF i >= n
    THEN <<>>
    ELSE IF \E r \in ss : r.lo = i
         THEN SlotOf(ss, i).out \o CollectFromLo(ss, i + 1, n)
         ELSE CollectFromLo(ss, i + 1, n)

collect(ss, ord) == CollectFromLo(ss, 0, Len(bytes) + 1)

(* lib.rs scan_with_bytes: the uniqueness check on the collected results *)
unique_check_off_by_one(rs) ==
    IF Len(rs) > 2
    THEN ErrNonUniquePattern
    ELSE IF rs = <<>> THEN Ok(None) ELSE Ok(Some(rs[1]))

unique_check(rs) ==
    IF Len(rs) > 1
    THEN ErrNonUniquePattern
    ELSE IF rs = <<>> THEN Ok(None) ELSE Ok(Some(rs[1]))

(* find_any's reducer, left.or(right): the leftmost leaf that holds an item *)
find_reduce(ss, ord) ==
    LET all == CollectFromLo(ss, 0, Len(bytes) + 1)
    IN  IF all = <<>> THEN None ELSE Some(all[1])

-----------------------------------------------------------------------------
(* Inputs of the scans *)

ByteValues == {0, 1}

Buffers == UNION {[1..n -> ByteValues] : n \in 0..MaxBufLen}

ScanTokens == {<<"0", "0">>, <<"0", "1">>, <<"?">>, <<"0", "G">>}

RECURSIVE JoinTokens(_)
JoinTokens(ts) ==
    IF ts = <<>>
    THEN <<>>
    ELSE IF Len(ts) = 1
         THEN ts[1]
         ELSE ts[1] \o <<" ">> \o JoinTokens(Tail(ts))

ScanTexts ==
    {JoinTokens(ts) : ts \in UNION {[1..n -> ScanTokens] : n \in 0..MaxPatLen}}

ParallelAllOps == {"mt_pattern_scan_all", "scan_all", "scan"}

Init ==
    /\ text \in ScanTexts
    /\ bytes \in Buffers
    /\ op = "none"
    /\ pc = "idle"
    /\ pattern_bytes = <<>>
    /\ chunks = {}
    /\ slots = {}
    /\ order = <<>>
    /\ next = <<>>
    /\ wstate = <<>>
    /\ found = FALSE
    /\ examined = {}
    /\ results = NoResult
    /\ result = NoResult

(* a call of st::pattern_scan(bytes, text) *)
StPatternScan ==
    /\ pc = "idle"
    /\ op' = "st_pattern_scan"
    /\ result' = st_pattern_scan(bytes, text)
    /\ examined' =
         LET c == create_bytes_from_string(text)
         IN  IF c.tag = "Ok" /\ windows(bytes, Len(c.val)).tag = "Ok"
             THEN WindowIndices(0,
                      StScanWindows(bytes, c.val,
                                    windows(bytes, Len(c.val)).val) - 1,
                      Len(c.val))
             ELSE {}
    /\ pc' = "done"
    /\ UNCHANGED <<text, bytes, pattern_bytes, chunks, slots, order, next,
                   wstate, found, results>>

(* a call of st::pattern_scan_all(bytes, text) *)
StPatternScanAll ==
    /\ pc = "idle"
    /\ op' = "st_pattern_scan_all"
    /\ result' = st_pattern_scan_all(bytes, text)
    /\ examined' =
         LET c == create_bytes_from_string(text)
         IN  IF c.tag = "Ok" /\ windows(bytes, Len(c.val)).tag = "Ok"
             THEN WindowIndices(0, windows(bytes, Len(c.val)).val - 1,
                                Len(c.val))
             ELSE {}
    /\ pc' = "done"
    /\ UNCHANGED <<text, bytes, pattern_bytes, chunks, slots, order, next,
                   wstate, found, results>>

(* a call of mt::pattern_scan_all, PatternScanner::scan_all or             *)
(* PatternScanner::scan (o), or of mt::pattern_scan: the pattern is        *)
(* compiled and the parallel iterator over the windows is driven.          *)
ParallelStart(o) ==
    /\ pc = "idle"
    /\ op' = o
    /\ LET c == create_bytes_from_string(text)
           w == par_windows(bytes, Len(c.val))
       IN  IF c.tag # "Ok"
           THEN /\ result' = c
                /\ results' = IF o = "scan" THEN c ELSE results
                /\ pc' = "done"
                /\ UNCHANGED <<pattern_bytes, chunks, next, wstate>>
           ELSE IF w.tag # "Ok"
           THEN /\ result' = w
                /\ results' = IF o = "scan" THEN w ELSE results
                /\ pc' = "done"
                /\ UNCHANGED <<pattern_bytes, chunks, next, wstate>>
           ELSE /\ pattern_bytes' = c.val
                /\ chunks' = {[lo |-> 0, hi |-> w.val - 1]}
                /\ next' = IF o = "mt_pattern_scan" THEN (0 :> 0) ELSE next
                /\ wstate' = IF o = "mt_pattern_scan"
                             THEN (0 :> "idle")
                             ELSE wstate
                /\ pc' = "running"
                /\ UNCHANGED <<result, results>>
    /\ UNCHANGED <<text, bytes, slots, order, found, examined>>

Started(ch) ==
    \/ ch.lo \in {order[j] : j \in 1..Len(order)}
    \/ (op = "mt_pattern_scan" /\ wstate[ch.lo] # "idle")

(* rayon splits a leaf that no worker has begun at its midpoint *)
Split(ch) ==
    /\ pc = "running"
    /\ ch \in chunks
    /\ ~Started(ch)
    /\ ch.hi - ch.lo + 1 >= 2
    /\ Cardinality(chunks) < MaxChunks
    /\ LET mid == ch.lo + ((ch.hi - ch.lo + 1) \div 2)
       IN  /\ chunks' = (chunks \ {ch}) \cup
                        {[lo |-> ch.lo, hi |-> mid - 1],
                         [lo |-> mid, hi |-> ch.hi]}
           /\ next' = IF op = "mt_pattern_scan"
                      THEN next @@ (mid :> mid)
                      ELSE next
           /\ wstate' = IF op = "mt_pattern_scan"
                        THEN wstate @@ (mid :> "idle")
                        ELSE wstate
    /\ UNCHANGED <<text, bytes, op, pc, pattern_bytes, slots, order, found,
                   examined, results, result>>

(* a worker folds one leaf of an all-matches scan *)
WorkerFold(ch) ==
    /\ pc = "running"
    /\ op \in ParallelAllOps
    /\ ch \in chunks
    /\ ~Started(ch)
    /\ slots' = slots \cup
                {[lo |-> ch.lo,
                  out |-> FilterMapFrom(bytes, pattern_bytes, ch.lo, ch.hi)]}
    /\ order' = Append(order, ch.lo)
    /\ examined' = examined \cup
                   WindowIndices(ch.lo, ch.hi, Len(pattern_bytes))
    /\ UNCHANGED <<text, bytes, op, pc, pattern_bytes, chunks, next, wstate,
                   found, results, result>>

AllFinished == \A ch \in chunks : ch.lo \in {order[j] : j \in 1..Len(order)}

(* every leaf has finished: the outputs are collected and the call returns *)
Collect ==
    /\ pc = "running"
    /\ op \in ParallelAllOps
    /\ AllFinished
    /\ LET v == collect(slots, order)
       IN  /\ results' = IF op = "scan" THEN Ok(v) ELSE results
           /\ result' = IF op = "mt_pattern_scan_all"
                        THEN Ok(sort(v))
                        ELSE IF op = "scan_all"
                             THEN Ok(v)
                             ELSE unique_check(v)
    /\ pc' = "done"
    /\ UNCHANGED <<text, bytes, op, pattern_bytes, chunks, slots, order, next,
                   wstate, found, examined>>

(* position_any: a worker looks at the found flag before the next window *)
WorkerCheck(ch) ==
    /\ pc = "running"
    /\ op = "mt_pattern_scan"
    /\ ch \in chunks
    /\ wstate[ch.lo] \in {"idle", "check"}
    /\ IF found \/ next[ch.lo] > ch.hi
       THEN /\ wstate' = [wstate EXCEPT ![ch.lo] = "stop"]
            /\ slots' = slots \cup {[lo |-> ch.lo, out |-> <<>>]}
            /\ order' = Append(order, ch.lo)
       ELSE /\ wstate' = [wstate EXCEPT ![ch.lo] = "test"]
            /\ UNCHANGED <<slots, order>>
    /\ UNCHANGED <<text, bytes, op, pc, pattern_bytes, chunks, next, found,
                   examined, results, result>>

(* position_any: a worker tests a window; a match sets the found flag *)
WorkerTest(ch) ==
    /\ pc = "running"
    /\ op = "mt_pattern_scan"
    /\ ch \in chunks
    /\ wstate[ch.lo] = "test"
    /\ examined' = examined \cup
                   WindowIndices(next[ch.lo], next[ch.lo], Len(pattern_bytes))
    /\ IF WindowMatches(bytes, next[ch.lo], pattern_bytes)
       THEN /\ found' = TRUE
            /\ wstate' = [wstate EXCEPT ![ch.lo] = "stop"]
            /\ slots' = slots \cup {[lo |-> ch.lo, out |-> <<next[ch.lo]>>]}
            /\ order' = Append(order, ch.lo)
            /\ UNCHANGED next
       ELSE /\ next' = [next EXCEPT ![ch.lo] = @ + 1]
            /\ wstate' = [wstate EXCEPT ![ch.lo] = "check"]
            /\ UNCHANGED <<found, slots, order>>
    /\ UNCHANGED <<text, bytes, op, pc, pattern_bytes, chunks, results,
                   result>>

(* position_any: every leaf has stopped and the items are reduced *)
Reduce ==
    /\ pc = "running"
    /\ op = "mt_pattern_scan"
    /\ AllFinished
    /\ result' = Ok(find_reduce(slots, order))
    /\ pc' = "done"
    /\ UNCHANGED <<text, bytes, op, pattern_bytes, chunks, slots, order, next,
                   wstate, found, examined, results>>

Next ==
    \/ StPatternScan
    \/ StPatternScanAll
    \/ \E o \in ParallelAllOps \cup {"mt_pattern_scan"} : ParallelStart(o)
    \/ \E ch \in chunks : Split(ch)
    \/ \E ch \in chunks : WorkerFold(ch)
    \/ Collect
    \/ \E ch \in chunks : WorkerCheck(ch)
    \/ \E ch \in chunks : WorkerTest(ch)
    \/ Reduce

Spec == Init /\ [][Next]_vars

-----------------------------------------------------------------------------
(* What the properties are stated with: the grammar of pattern texts and   *)
(* the matching offsets, written down independently of the operators above *)

GrammarWhitespace == {" ", "\t"}

HexPairs ==
    {<<"0", 0>>, <<"1", 1>>, <<"2", 2>>, <<"3", 3>>, <<"4", 4>>, <<"5", 5>>,
     <<"6", 6>>, <<"7", 7>>, <<"8", 8>>, <<"9", 9>>,
     <<"a", 10>>, <<"b", 11>>, <<"c", 12>>, <<"d", 13>>, <<"e", 14>>,
     <<"f", 15>>,
     <<"A", 10>>, <<"B", 11>>, <<"C", 12>>, <<"D", 13>>, <<"E", 14>>,
     <<"F", 15>>}

IsHexChar(c) == \E hp \in HexPairs : hp[1] = c

HexValue(c) == (CHOOSE hp \in HexPairs : hp[1] = c)[2]

(* the maximal runs of non-whitespace characters of s, as <<first, last>> *)
TokenSpans(s) ==
    {sp \in (1..Len(s)) \X (1..Len(s)) :
        /\ sp[1] <= sp[2]
        /\ \A k \in sp[1]..sp[2] : s[k] \notin GrammarWhitespace
        /\ (sp[1] = 1 \/ s[sp[1] - 1] \in GrammarWhitespace)
        /\ (sp[2] = Len(s) \/ s[sp[2] + 1] \in GrammarWhitespace)}

TokenCount(s) == Cardinality(TokenSpans(s))

Token(s, n) ==
    LET sp == CHOOSE q \in TokenSpans(s) :
                  Cardinality({r \in TokenSpans(s) : r[1] < q[1]}) = n - 1
    IN  SubSeq(s, sp[1], sp[2])

IsWildcardToken(t) == t = <<"?">> \/ t = <<"?", "?">>

IsHexToken(t) == Len(t) = 2 /\ IsHexChar(t[1]) /\ IsHexChar(t[2])

IsValidToken(t) == IsWildcardToken(t) \/ IsHexToken(t)

AllTokensValid(s) == \A n \in 1..TokenCount(s) : IsValidToken(Token(s, n))

FirstInvalid(s) ==
    CHOOSE n \in 1..TokenCount(s) :
        /\ ~IsValidToken(Token(s, n))
        /\ \A m \in 1..(n - 1) : IsValidToken(Token(s, m))

(* the offsets at which pattern p matches buffer b *)
MatchingOffsets(b, p) ==
    {o \in 0..(Len(b) - Len(p)) :
        \A k \in 0..(Len(p) - 1) : p[k + 1] = None \/ b[o + k + 1] = p[k + 1][1]}

SetOf(s) == {s[i] : i \in 1..Len(s)}

StrictlyAscending(s) == \A i \in 1..Len(s) : \A j \in 1..Len(s) : i < j => s[i] < s[j]

Compiled == create_bytes_from_string(text)

CompilesNonEmpty == Compiled.tag = "Ok" /\ Len(Compiled.val) >= 1

Matches == MatchingOffsets(bytes, Compiled.val)

Min(S) == CHOOSE x \in S : \A y \in S : x <= y

AllMatchesOps == {"st_pattern_scan_all", "mt_pattern_scan_all", "scan_all"}

SameOutcome(r1, r2) ==
    /\ r1.tag = r2.tag
    /\ r1.tag = "Ok" => r1.val = r2.val
    /\ r1.tag = "Err" => r1.err = r2.err

(* the pattern text with token k replaced by the wildcard "?" *)
RelaxText(s, k) ==
    JoinTokens([split_whitespace(s) EXCEPT ![k] = <<"?">>])

-----------------------------------------------------------------------------
(* C1: for a compiled pattern p with 1 <= len(p) <= len(buffer), every     *)
(* all-matches scan (st::pattern_scan_all, mt::pattern_scan_all,           *)
(* PatternScanner::scan_all) returns exactly the matching offsets, each    *)
(* once, in strictly ascending order.                                      *)
C1_AllMatchesExact ==
    (/\ pc = "done"
     /\ op \in AllMatchesOps
     /\ CompilesNonEmpty
     /\ Len(Compiled.val) <= Len(bytes))
    => /\ result.tag = "Ok"
       /\ SetOf(result.val) = Matches
       /\ StrictlyAscending(result.val)

C1_Witness ==
    /\ pc = "done"
    /\ op = "scan_all"
    /\ CompilesNonEmpty
    /\ Len(Compiled.val) = 2
    /\ None \in SetOf(Compiled.val)
    /\ Some(1) \in SetOf(Compiled.val)
    /\ result.tag = "Ok"
    /\ Len(result.val) = 2
    /\ Len(bytes) = 4

(* C2: whatever the split of the windows into leaves and whatever the      *)
(* order in which the workers finish, the parallel all-matches scans       *)
(* (mt::pattern_scan_all, PatternScanner::scan_all) return what the        *)
(* sequential st::pattern_scan_all returns, in ascending offset order.     *)
C2_ParallelEqualsSequential ==
    (pc = "done" /\ op \in {"mt_pattern_scan_all", "scan_all"})
    => /\ SameOutcome(result, st_pattern_scan_all(bytes, text))
       /\ result.tag = "Ok" => StrictlyAscending(result.val)

C2_Witness ==
    /\ pc = "done"
    /\ op = "scan_all"
    /\ Len(order) >= 2
    /\ order[1] > order[2]
    /\ SlotOf(slots, order[1]).out # <<>>
    /\ SlotOf(slots, order[2]).out # <<>>
    /\ result.tag = "Ok"
    /\ Len(result.val) >= 2

(* C3: when the all-matches scan inside PatternScanner::scan returns 0     *)
(* offsets the call returns Ok(None), when it returns exactly 1 the call   *)
(* returns Ok(Some(o)) with o that matching offset, when it returns 2 or   *)
(* more the call returns Err(NonUniquePattern); an offset is never         *)
(* returned when two or more matches exist.                                *)
C3_Uniqueness ==
    (pc = "done" /\ op = "scan")
    => /\ results.tag = "Ok" =>
            /\ SetOf(results.val) = Matches
            /\ Len(results.val) = 0 => (result.tag = "Ok" /\ result.val = None)
            /\ Len(results.val) = 1 =>
                   (result.tag = "Ok" /\ result.val = Some(results.val[1]))
            /\ Len(results.val) >= 2 =>
                   (result.tag = "Err" /\ result.err = "NonUniquePattern")
       /\ (result.tag = "Ok" /\ result.val # None) =>
            (Cardinality(Matches) = 1 /\ result.val[1] \in Matches)

C3_Witness ==
    /\ pc = "done"
    /\ op = "scan"
    /\ results.tag = "Ok"
    /\ Len(results.val) >= 2
    /\ result.tag = "Err"
    /\ result.err = "NonUniquePattern"

(* C4: for a pattern text with no token, every scan returns an empty or    *)
(* no-match result for every buffer.                                       *)
C4_EmptyPatternNoMatch ==
    (pc = "done" /\ op # "compile" /\ TokenCount(text) = 0)
    => (result.tag = "Ok" /\ result.val = <<>>)

(* C5: for a valid non-empty pattern longer than the buffer, every         *)
(* all-matches scan returns Ok with no offset, PatternScanner::scan        *)
(* returns Ok(None), and no index outside the buffer is examined.          *)
C5_OversizedPatternNoMatch ==
    (/\ pc = "done"
     /\ op \in AllMatchesOps \cup {"scan"}
     /\ CompilesNonEmpty
     /\ Len(Compiled.val) > Len(bytes))
    => /\ result.tag = "Ok"
       /\ result.val = <<>>
       /\ examined \subseteq 0..(Len(bytes) - 1)

C5_Witness ==
    /\ pc = "done"
    /\ op = "scan"
    /\ CompilesNonEmpty
    /\ Len(bytes) = 1
    /\ Len(Compiled.val) = 2
    /\ result.tag = "Ok"
    /\ result.val = None

(* C6: a text made only of two-digit hex tokens (either case) and "?" or   *)
(* "??" separated by runs of whitespace compiles to a sequence with one    *)
(* entry per token, None for a wildcard token and the base-16 value of the *)
(* token otherwise, in token order.                                        *)
C6_CompileRoundTrip ==
    (pc = "done" /\ op = "compile" /\ AllTokensValid(text))
    => /\ result.tag = "Ok"
       /\ Len(result.val) = TokenCount(text)
       /\ \A n \in 1..TokenCount(text) :
            LET t == Token(text, n)
            IN  IF IsWildcardToken(t)
                THEN result.val[n] = None
                ELSE result.val[n] = Some(16 * HexValue(t[1]) + HexValue(t[2]))

C6_Witness ==
    /\ pc = "done"
    /\ op = "compile"
    /\ AllTokensValid(text)
    /\ TokenCount(text) = 2
    /\ text[1] \in GrammarWhitespace
    /\ \E n \in 1..2 : IsWildcardToken(Token(text, n))
    /\ \E n \in 1..2 : Token(text, n) = <<"a", "1">>
    /\ result.tag = "Ok"

(* C7: create_bytes_from_string succeeds only if every token is "?", "??"  *)
(* or two hex digits; otherwise it fails on the first offending token,     *)
(* with ByteLength(token) when that token is not 2 characters long and     *)
(* with InvalidByte when it is 2 characters long but not two hex digits.   *)
C7_RejectsInvalidTokens ==
    (pc = "done" /\ op = "compile")
    => /\ result.tag = "Ok" => AllTokensValid(text)
       /\ ~AllTokensValid(text) =>
            LET t == Token(text, FirstInvalid(text))
            IN  /\ result.tag = "Err"
                /\ IF Len(t) # 2
                   THEN result.err = "ByteLength" /\ result.token = t
                   ELSE result.err = "InvalidByte"

(* C8: replacing one exact byte of the pattern by a wildcard keeps every   *)
(* offset the all-matches scan returned, so the match count never          *)
(* decreases.                                                              *)
C8_WildcardRelaxation ==
    (pc = "done" /\ op \in AllMatchesOps /\ result.tag = "Ok")
    => \A k \in 1..Len(Compiled.val) :
          Compiled.val[k] # None =>
             LET relaxed == st_pattern_scan_all(bytes, RelaxText(text, k))
             IN  /\ relaxed.tag = "Ok"
                 /\ SetOf(result.val) \subseteq SetOf(relaxed.val)
                 /\ Len(result.val) <= Len(relaxed.val)

C8_Witness ==
    /\ pc = "done"
    /\ op = "st_pattern_scan_all"
    /\ result.tag = "Ok"
    /\ Len(result.val) = 1
    /\ Len(Compiled.val) = 2
    /\ Compiled.val[2] # None
    /\ Len(st_pattern_scan_all(bytes, RelaxText(text, 2)).val) = 3

(* C9: for every schedule of the workers, mt::pattern_scan on a pattern    *)
(* (a compiled pattern of length >= 1) returns None iff the pattern        *)
(* matches at no offset and otherwise Some(o) with o an offset where it    *)
(* matches; when at most one offset matches, and also when the text does   *)
(* not compile to such a pattern, it ends as st::pattern_scan ends.        *)
C9_AnyMatch ==
    (pc = "done" /\ op = "mt_pattern_scan")
    => IF CompilesNonEmpty
       THEN /\ result.tag = "Ok"
            /\ result.val = None <=> Matches = {}
            /\ result.val # None => result.val[1] \in Matches
            /\ Cardinality(Matches) <= 1 =>
                 SameOutcome(result, st_pattern_scan(bytes, text))
       ELSE SameOutcome(result, st_pattern_scan(bytes, text))

C9_Witness ==
    /\ pc = "done"
    /\ op = "mt_pattern_scan"
    /\ CompilesNonEmpty
    /\ result.tag = "Ok"
    /\ result.val # None
    /\ result.val # st_pattern_scan(bytes, text).val
    /\ Cardinality(Matches) >= 2

(* C10: st::pattern_scan on a pattern of length >= 1 returns Some(o) with  *)
(* o the lowest matching offset (the first element of                      *)
(* st::pattern_scan_all) whenever a match exists, also when two or more    *)
(* exist, None when none exists, and never NonUniquePattern.               *)
C10_FirstMatchNoUniqueness ==
    (pc = "done" /\ op = "st_pattern_scan")
    => /\ ~(result.tag = "Err" /\ result.err = "NonUniquePattern")
       /\ CompilesNonEmpty =>
            /\ result.tag = "Ok"
            /\ Matches = {} => result.val = None
            /\ Matches # {} =>
                 /\ result.val = Some(Min(Matches))
                 /\ result.val =
                      Some(st_pattern_scan_all(bytes, text).val[1])

C10_Witness ==
    /\ pc = "done"
    /\ op = "st_pattern_scan"
    /\ CompilesNonEmpty
    /\ Cardinality(Matches) >= 2
    /\ result.tag = "Ok"
    /\ result.val = Some(1)

====
